---- MODULE Spec2Model ----
(***************************************************************************)
(* Model of src/characters/character_relations.py: the character-network   *)
(* pipeline (name aggregation, top-name selection, alignment rate,         *)
(* co-occurrence / sentiment matrices, edge projection, graph plotting).   *)
(*                                                                         *)
(* Text is a sequence of one-character strings.  Numbers that the program  *)
(* holds as floats are exact rationals [nan, num, den], NaN being a value  *)
(* of its own, as in IEEE arithmetic under numpy's default error state     *)
(* (a division by zero warns and yields NaN, it does not raise).           *)
(***************************************************************************)
EXTENDS Integers, Sequences, FiniteSets, TLC

\* ------------------------------------------------------------------ bounds
\* Longest sentence list drawn as input.
MaxSentences == 2
\* Longest name vocabulary / candidate list drawn as input.
MaxNames == 3
\* Largest top_num drawn as input (the smallest is -1: Python slices accept it).
MaxTopNum == 3
\* Largest matrix order drawn as input of the edge projection.
MaxShape == 3

\* ------------------------------------------------------------------- text
W_ada  == <<"a", "d", "a">>
W_Ada  == <<"A", "d", "a">>
W_adam == <<"a", "d", "a", "m">>
W_bill == <<"b", "i", "l", "l">>
W_mad  == <<"m", "a", "d">>
W_glad == <<"g", "l", "a", "d">>
W_ada_bill == W_ada \o <<" ">> \o W_bill

\* The sentences inputs are drawn from (each ends with its full stop).
SentencePool ==
    { W_Ada \o <<" ">> \o W_bill \o <<".">>,
      W_Ada \o <<" ">> \o W_mad \o <<" ">> \o W_bill \o <<".">>,
      W_adam \o <<" ">> \o W_glad \o <<".">>,
      W_bill \o <<" ">> \o W_glad \o <<" ">> \o W_ada \o <<".">> }

\* The names inputs are drawn from: three single-word names and a phrase.
NamePool == { W_ada, W_adam, W_bill, W_ada_bill }

\* Characters of the modelled alphabet that the regular expression class \w
\* does not match.
NonWord == { " ", "." }

\* Mutant of ToLower: the documents are not lowercased.
KeepCase(c) == c

\* str.lower() on one character.
ToLower(c) == IF c = "A" THEN "a" ELSE c

\* The sequence s held as a tuple: TLC then evaluates each element once.
Tuple(s) == s \o <<>>

Lower(s) == Tuple([i \in 1..Len(s) |-> ToLower(s[i])])

\* re.findall(r"(?u)\b\w\w+\b", s): the maximal runs of two or more word
\* characters, in order.
RECURSIVE Scan(_, _, _)
Scan(s, i, cur) ==
    LET flush == IF Len(cur) >= 2 THEN <<cur>> ELSE <<>>
    IN  IF i > Len(s) THEN flush
        ELSE IF s[i] \in NonWord THEN flush \o Scan(s, i + 1, <<>>)
        ELSE Scan(s, i + 1, Append(cur, s[i]))

Tokenize(s) == Scan(s, 1, <<>>)

\* sklearn's ENGLISH_STOP_WORDS, restricted to the words of SentencePool.
EnglishStopWords == { W_bill }

\* CountVectorizer.build_analyzer(): lowercase, tokenize, drop stop words.
Analyze(doc, stop) ==
    LET tokens == Tokenize(Lower(doc))
        keep(t) == t \notin stop
    IN  SelectSeq(tokens, keep)

RECURSIVE SeqSum(_)
SeqSum(s) == IF s = <<>> THEN 0 ELSE Head(s) + SeqSum(Tail(s))

CountOf(x, s) == Cardinality({ k \in 1..Len(s) : s[k] = x })

HasDuplicates(s) == \E a, b \in 1..Len(s) : a < b /\ s[a] = s[b]

\* CountVectorizer(vocabulary=vocab, stop_words=stop, binary=binary)
\*   .fit_transform(docs).toarray()
\* A list vocabulary with a repeated term, or an empty one, is a ValueError.
\* Vocabulary terms are matched as they are (only documents are lowercased).
TermCounts(vocab, tokens, binary) ==
    Tuple([k \in 1..Len(vocab) |->
             IF binary THEN (IF CountOf(vocab[k], tokens) > 0 THEN 1 ELSE 0)
             ELSE CountOf(vocab[k], tokens)])

CountVectorizer(vocab, docs, stop, binary) ==
    IF HasDuplicates(vocab) \/ vocab = <<>>
    THEN [error |-> "ValueError", X |-> <<>>]
    ELSE [error |-> "none",
          X |-> Tuple([n \in 1..Len(docs) |->
                         TermCounts(vocab, Analyze(docs[n], stop), binary)])]

\* The AFINN lexicon, restricted to the words of SentencePool.
AfinnValence(w) ==
    IF w = W_mad THEN -3 ELSE IF w = W_glad THEN 3 ELSE 0

\* Afinn().score(text): the sum of the valences of the lexicon words found
\* in the lowercased text.
RECURSIVE Words(_, _, _)
Words(s, i, cur) ==
    LET flush == IF Len(cur) >= 1 THEN <<cur>> ELSE <<>>
    IN  IF i > Len(s) THEN flush
        ELSE IF s[i] \in NonWord THEN flush \o Words(s, i + 1, <<>>)
        ELSE Words(s, i + 1, Append(cur, s[i]))

Valences(ws) == Tuple([k \in 1..Len(ws) |-> AfinnValence(ws[k])])

AfinnScore(text) == SeqSum(Valences(Words(Lower(text), 1, <<>>)))

\* [afinn.score(x) for x in sentence_list]
Scores(sl) == Tuple([n \in 1..Len(sl) |-> AfinnScore(sl[n])])

\* ---------------------------------------------------------------- numbers
Abs(x) == IF x < 0 THEN -x ELSE x

RECURSIVE Gcd(_, _)
Gcd(a, b) == IF b = 0 THEN a ELSE Gcd(b, a % b)

NaN == [nan |-> TRUE, num |-> 0, den |-> 1]

\* The float num/den (den > 0), in lowest terms.
Rat(num, den) ==
    LET g == Gcd(Abs(num), den)
    IN  [nan |-> FALSE, num |-> num \div g, den |-> den \div g]

Zero == Rat(0, 1)

FromInt(x) == Rat(x, 1)

\* Float division of two integers as numpy does it: 0/0 is NaN.  (x/0 with
\* x # 0 is an infinity; no call of the model divides a nonzero by zero.)
IntDiv(x, y) ==
    IF y = 0 THEN NaN
    ELSE IF y < 0 THEN Rat(-x, -y) ELSE Rat(x, y)

RatAdd(a, b) ==
    IF a.nan \/ b.nan THEN NaN
    ELSE Rat(a.num * b.den + b.num * a.den, a.den * b.den)

RatMul(a, b) ==
    IF a.nan \/ b.nan THEN NaN
    ELSE Rat(a.num * b.num, a.den * b.den)

\* ------------------------------------------------------------- iterative_NER
\* Python values of mixed type are tagged: None, a string, or a list.
None == [tag |-> "None", items |-> <<>>]

PyStr(chars) == [tag |-> "str", items |-> chars]

PyList(items) == [tag |-> "list", items |-> items]

\* name_entity_recognition(sentence): runs the module-level pipeline nlp,
\* prints doc.entities and ends without a return statement (the lines that
\* build and return the name list are commented out).  nlp is bound only by
\* the script's main block, to a spaCy pipeline, whose Doc has no attribute
\* "entities" (it has "ents"); the Document of a stanza pipeline has it.
name_entity_recognition(pipeline, sentence) ==
    IF pipeline = "unbound" THEN [error |-> "NameError", value |-> None]
    ELSE IF pipeline = "spacy" THEN [error |-> "AttributeError", value |-> None]
    ELSE [error |-> "none", value |-> None]

\* flatten(input_list) for the lists iterative_NER builds: a list element is
\* replaced by its items, any other element is kept.
RECURSIVE flatten(_)
flatten(input_list) ==
    IF input_list = <<>> THEN <<>>
    ELSE LET i == Head(input_list)
         IN  (IF i.tag = "list" THEN i.items ELSE <<i>>) \o flatten(Tail(input_list))

\* list(Counter(xs)): the distinct elements in order of first occurrence.
RECURSIVE CounterKeys(_)
CounterKeys(xs) ==
    IF xs = <<>> THEN <<>>
    ELSE LET rest == CounterKeys(SubSeq(xs, 1, Len(xs) - 1))
             x == xs[Len(xs)]
         IN  IF \E k \in 1..Len(rest) : rest[k] = x THEN rest ELSE Append(rest, x)

\* iterative_NER(sentence_list, threshold_rate); threshold_rate is the
\* rational thr.num / thr.den.
iterative_NER(pipeline, sl, thr) ==
    LET found == [n \in 1..Len(sl) |-> name_entity_recognition(pipeline, sl[n])]
        kept(r) == r.value # PyList(<<>>)
        flat == flatten([n \in 1..Len(SelectSeq(found, kept)) |->
                            SelectSeq(found, kept)[n].value])
        keys == CounterKeys(flat)
        frequent(x) == CountOf(x, flat) * thr.den >= thr.num * Len(sl)
    IN  IF sl # <<>> /\ found[1].error # "none"
        THEN [error |-> found[1].error, output |-> <<>>]
        ELSE [error |-> "none", output |-> SelectSeq(keys, frequent)]

\* ------------------------------------------------------------------ top_names
\* Python's s[0:n] on a sequence of length Len(s), n of either sign.
Slice0(s, n) ==
    LET stop == IF n < 0 THEN (IF Len(s) + n < 0 THEN 0 ELSE Len(s) + n)
                ELSE IF n > Len(s) THEN Len(s) ELSE n
    IN  SubSeq(s, 1, stop)

Orderings(n) ==
    { p \in [1..n -> 1..n] : \A a, b \in 1..n : a # b => p[a] # p[b] }

\* Mutant of SortOrders: ascending=True.
SortOrders_Ascending(values) ==
    { p \in Orderings(Len(values)) :
        \A a, b \in 1..Len(values) : a < b => values[p[a]] <= values[p[b]] }

\* DataFrame.sort_values(by=0, ascending=False) with the default
\* kind="quicksort", which is not a stable sort: the orders it may produce
\* are the permutations that put the values in non-increasing order.
SortOrders(values) ==
    { p \in Orderings(Len(values)) :
        \A a, b \in 1..Len(values) : a < b => values[p[a]] >= values[p[b]] }

\* The frequency count of top_names: a one-document CountVectorizer over
\* novel.lower() with stop_words='english'.
NameCounts(nl, text) == CountVectorizer(nl, <<Lower(text)>>, EnglishStopWords, FALSE)

\* name_frequency[0:top_num], with its index (the names) and its column 0.
TopRows(nl, counts, top) ==
    [error |-> "none",
     name_frequency |-> Tuple([k \in 1..Len(top) |-> counts[top[k]]]),
     names |-> Tuple([k \in 1..Len(top) |-> nl[top[k]]])]

\* top_names(name_list, novel, top_num) under the sort order p.
top_names(nl, text, n, p) ==
    IF NameCounts(nl, text).error # "none"
    THEN [error |-> NameCounts(nl, text).error, name_frequency |-> <<>>, names |-> <<>>]
    ELSE TopRows(nl, NameCounts(nl, text).X[1], Slice0(Tuple(p), n))

\* ------------------------------------------------------- calculate_align_rate
\* np.sum(sentiment_score) / len(np.nonzero(sentiment_score)[0]) * -2
AlignRateOf(sentiment_score) ==
    RatMul(IntDiv(SeqSum(sentiment_score),
                  Cardinality({ n \in 1..Len(sentiment_score) : sentiment_score[n] # 0 })),
           FromInt(-2))

calculate_align_rate(sl) == AlignRateOf(Scores(sl))

\* ----------------------------------------------------------- calculate_matrix
\* A K x K matrix given by its entries, held as a tuple of tuples.
RowOf(K, entry(_)) == Tuple([j \in 1..K |-> entry(j)])

\* np.dot(P.T, Q) for two N x K matrices (rows are sentences).
DotT(P, Q, K) ==
    Tuple([i \in 1..K |->
        LET cell(j) == SeqSum(Tuple([n \in 1..Len(P) |-> P[n][i] * Q[n][j]]))
        IN  RowOf(K, cell)])

\* (occurrence_each_sentence.T * sentiment_score).T: row n times score n.
Weighted(P, sentiment_score, K) ==
    Tuple([n \in 1..Len(P) |->
        LET cell(k) == P[n][k] * sentiment_score[n]
        IN  RowOf(K, cell)])

\* Mutant of AddAlign: the alignment correction is left out.
AddAlign_Dropped(S, ar, C) ==
    Tuple([i \in 1..Len(S) |->
        LET cell(j) == FromInt(S[i][j])
        IN  RowOf(Len(S), cell)])

\* sentiment_matrix += align_rate * cooccurrence_matrix
AddAlign(S, ar, C) ==
    Tuple([i \in 1..Len(S) |->
        LET cell(j) == RatAdd(FromInt(S[i][j]), RatMul(ar, FromInt(C[i][j])))
        IN  RowOf(Len(S), cell)])

\* Mutant of Tril: np.triu, the upper triangle is the one kept.
Triu(m, z) ==
    Tuple([i \in 1..Len(m) |->
        LET cell(j) == IF j >= i THEN m[i][j] ELSE z
        IN  RowOf(Len(m), cell)])

\* np.tril(m): the entries above the diagonal become the zero z.
Tril(m, z) ==
    Tuple([i \in 1..Len(m) |->
        LET cell(j) == IF j <= i THEN m[i][j] ELSE z
        IN  RowOf(Len(m), cell)])

\* m[[range(shape)], [range(shape)]] = 0
ZeroDiagonal(m, z) ==
    Tuple([i \in 1..Len(m) |->
        LET cell(j) == IF j = i THEN z ELSE m[i][j]
        IN  RowOf(Len(m), cell)])

\* The two matrices from the occurrence matrix P and the sentence scores.
MatricesOf(P, sentiment_score, ar, K, C) ==
    [error |-> "none",
     occurrence |-> P,
     cooccurrence |-> ZeroDiagonal(Tril(C, 0), 0),
     sentiment |-> ZeroDiagonal(
         Tril(AddAlign(DotT(P, Weighted(P, sentiment_score, K), K), ar, C), Zero), Zero)]

Vectorized(V, sentiment_score, ar, K) ==
    IF V.error # "none"
    THEN [error |-> V.error, occurrence |-> <<>>, cooccurrence |-> <<>>,
          sentiment |-> <<>>]
    ELSE MatricesOf(V.X, sentiment_score, ar, K, DotT(V.X, V.X, K))

calculate_matrix(nl, sl, ar) ==
    Vectorized(CountVectorizer(nl, sl, {}, TRUE), Scores(sl), ar, Len(nl))

\* -------------------------------------------------------- matrix_to_edge_list
Modes == { "co-occurrence", "sentiment", "bare" }

RatAbs(a) == IF a.nan THEN NaN ELSE Rat(Abs(a.num), a.den)

\* np.max(np.abs(matrix)) of a non-empty integer matrix.
MaxAbs(m) ==
    CHOOSE x \in { Abs(m[i][j]) : i, j \in 1..Len(m) } :
        \A i, j \in 1..Len(m) : Abs(m[i][j]) <= x

\* list(zip(*np.where(np.triu(np.ones([shape, shape])) == 0))): the index
\* pairs below the diagonal, row by row (indices are 1-based here).
RECURSIVE LowerTriLoc(_)
LowerTriLoc(shape) ==
    IF shape <= 1 THEN <<>>
    ELSE LowerTriLoc(shape - 1) \o [j \in 1..(shape - 1) |-> <<shape, j>>]

\* A weight or color is fn applied to the float arg: fn is "0.7*ln" (np.log
\* times 0.7), "ln" (np.log) or "id".  np.log of a NaN or a negative is NaN.
IsNaNValue(v) == v.arg.nan \/ (v.fn # "id" /\ v.arg.num < 0)

IsZeroValue(v) ==
    /\ ~IsNaNValue(v)
    /\ IF v.fn = "id" THEN v.arg.num = 0 ELSE v.arg.num = v.arg.den

\* weight > 0.0001 for a weight 0.7 * ln(a/b): a/b > exp(1/7000), that is
\* (a - b) / b > 1 / 6999.500012, which for b < 10^8 is (a - b) * 13999 >= 2b.
\* Any comparison with NaN is False.
AboveNoise(v) ==
    /\ ~IsNaNValue(v)
    /\ (v.arg.num - v.arg.den) * 13999 >= 2 * v.arg.den

EdgeWeight(md, x) ==
    IF md = "co-occurrence"
    THEN [fn |-> "0.7*ln", arg |-> RatAdd(RatMul(FromInt(2000), x), FromInt(1))]
    ELSE [fn |-> "0.7*ln", arg |-> RatAdd(RatAbs(RatMul(FromInt(1000), x)), FromInt(1))]

EdgeColor(md, x) ==
    IF md = "co-occurrence"
    THEN [fn |-> "ln", arg |-> RatAdd(RatMul(FromInt(2000), x), FromInt(1))]
    ELSE [fn |-> "id", arg |-> RatMul(FromInt(2000), x)]

\* Mutant of KeepEdge: the noise filter is applied in every mode.
KeepEdge_Filtered(md, w) == AboveNoise(w)

\* The test of the loop: mode != 'bare' or weight[i] > 0.0001
KeepEdge(md, w) == md # "bare" \/ AboveNoise(w)

\* The edges of the index pairs kept, in order.
EdgesOf(m, md, nl, kept, max) ==
    Tuple([k \in 1..Len(kept) |->
        [a |-> nl[kept[k][1]], b |-> nl[kept[k][2]],
         weight |-> EdgeWeight(md, IntDiv(m[kept[k][1]][kept[k][2]], max)),
         color |-> EdgeColor(md, IntDiv(m[kept[k][1]][kept[k][2]], max))]])

KeptLoc(m, md, loc, max) ==
    LET keep(i) == KeepEdge(md, EdgeWeight(md, IntDiv(m[i[1]][i[2]], max)))
    IN  SelectSeq(loc, keep)

\* matrix_to_edge_list(matrix, mode, name_list).  np.max of an empty array is
\* a ValueError; with a mode that is none of the three, weight and color are
\* never bound and the first pass of the loop is an UnboundLocalError.
matrix_to_edge_list(m, md, nl) ==
    IF Len(m) = 0 THEN [error |-> "ValueError", edge_list |-> <<>>]
    ELSE IF md \notin Modes /\ Len(m) > 1
    THEN [error |-> "UnboundLocalError", edge_list |-> <<>>]
    ELSE [error |-> "none",
          edge_list |-> EdgesOf(m, md, nl,
                                KeptLoc(m, md, LowerTriLoc(Len(m)), MaxAbs(m)),
                                MaxAbs(m))]

\* ----------------------------------------------------------------- plot_graph
NoGraph == [built |-> FALSE, nodes |-> {}, edges |-> <<>>]

\* plot_graph(name_list, name_frequency, matrix, plt_name, suffix, mode):
\* the edge list, the node sizes (np.max of an empty list is a ValueError),
\* the graph, the GEXF export ('bare' and 'sentiment'), the drawing (any
\* other mode than the three raises ValueError here), the PNG.
GexfFile(md) ==
    IF md = "bare" THEN "characters.gexf"
    ELSE IF md = "sentiment" THEN "character_sentiment.gexf"
    ELSE "none"

Plotted(E, nl, nf, md) ==
    IF E.error # "none"
    THEN [error |-> E.error, G |-> NoGraph, gexf |-> "none",
          drawn |-> FALSE, png |-> FALSE]
    ELSE IF nf = <<>>
    THEN [error |-> "ValueError", G |-> NoGraph, gexf |-> "none",
          drawn |-> FALSE, png |-> FALSE]
    ELSE [error |-> IF md \in Modes THEN "none" ELSE "ValueError",
          G |-> [built |-> TRUE, nodes |-> { nl[k] : k \in 1..Len(nl) },
                 edges |-> E.edge_list],
          gexf |-> GexfFile(md),
          drawn |-> md \in Modes,
          png |-> md \in Modes]

plot_graph(nl, nf, m, md) == Plotted(matrix_to_edge_list(m, md, nl), nl, nf, md)

\* ---------------------------------------------------------------- the state
VARIABLES
    pc,                         \* the call about to run; "done" or "error" after it
    error,                      \* the exception that ended the last call, or "none"
    nlp,                        \* the module-level pipeline name_entity_recognition uses
    sentence_list,
    threshold_rate,
    output,                     \* iterative_NER's result
    novel,
    preliminary_name_list,      \* top_names' candidate list
    top_num,
    name_frequency,
    name_list,
    align_rate,
    occurrence_each_sentence,
    cooccurrence_matrix,
    sentiment_matrix,
    matrix,                     \* the matrix handed to the edge projection
    mode,
    edge_list,
    G,                          \* plot_graph's networkx graph
    gexf,                       \* the GEXF file plot_graph wrote, or "none"
    drawn,
    png

vars == <<pc, error, nlp, sentence_list, threshold_rate, output, novel,
          preliminary_name_list, top_num, name_frequency, name_list, align_rate,
          occurrence_each_sentence, cooccurrence_matrix, sentiment_matrix,
          matrix, mode, edge_list, G, gexf, drawn, png>>

nerVars == <<nlp, threshold_rate, output>>
topVars == <<novel, preliminary_name_list, top_num>>
matrixVars == <<occurrence_each_sentence, cooccurrence_matrix, sentiment_matrix>>
edgeVars == <<matrix, mode, edge_list, G, gexf, drawn, png>>

\* ------------------------------------------------------------------- inputs
SeqsUpTo(S, n) == UNION { [1..k -> S] : k \in 0..n }

SentenceLists == SeqsUpTo(SentencePool, MaxSentences)

\* A name vocabulary is duplicate-free (iterative_NER's result is the key
\* list of a Counter); one list with a repeated name is drawn too.
NameLists ==
    { nl \in SeqsUpTo(NamePool, MaxNames) : ~HasDuplicates(nl) } \cup { <<W_ada, W_ada>> }

TopNums == (-1)..MaxTopNum

AlignRates == { NaN, Rat(0, 1), Rat(-8, 3), Rat(6, 1) }

\* 0.0005 (the default), 1 and 1.5
ThresholdRates == { [num |-> 1, den |-> 2000], [num |-> 1, den |-> 1], [num |-> 3, den |-> 2] }

Pipelines == { "unbound", "spacy", "stanza" }

MatrixEntries == { -2, 0, 1 }

\* The matrices calculate_matrix returns are strictly lower triangular.
LowerPairs(k) == { ij \in (1..k) \X (1..k) : ij[1] > ij[2] }

Matrices ==
    UNION { { Tuple([i \in 1..k |-> Tuple([j \in 1..k |->
                  IF i > j THEN f[<<i, j>>] ELSE 0])]) :
              f \in [LowerPairs(k) -> MatrixEntries] } : k \in 0..MaxShape }

\* One more mode than the three the projection knows.
ModeInputs == Modes \cup { "weighted" }

\* Distinct names for the rows of a drawn matrix.
RowNames == <<W_ada, W_bill, W_adam, W_mad, W_glad>>

\* The text whose sentences are sl: sent_tokenize(JoinSentences(sl)) = sl.
RECURSIVE JoinSentences(_)
JoinSentences(sl) ==
    IF sl = <<>> THEN <<>>
    ELSE IF Len(sl) = 1 THEN sl[1]
    ELSE sl[1] \o <<" ">> \o JoinSentences(Tail(sl))

\* The values of the variables a specification's calls do not take as input.
NoResults ==
    /\ error = "none"
    /\ output = <<>>
    /\ occurrence_each_sentence = <<>>
    /\ cooccurrence_matrix = <<>>
    /\ sentiment_matrix = <<>>
    /\ edge_list = <<>>
    /\ G = NoGraph
    /\ gexf = "none"
    /\ drawn = FALSE
    /\ png = FALSE

NoNER == nlp = "unbound" /\ threshold_rate = [num |-> 1, den |-> 2000]

NoCandidates == novel = <<>> /\ preliminary_name_list = <<>> /\ top_num = 20

NoProjection == matrix = <<>> /\ mode = "co-occurrence"

\* ------------------------------------------------------------------ actions
Finish(e, next) ==
    /\ error' = e
    /\ pc' = IF e = "none" THEN next ELSE "error"

\* preliminary_name_list = iterative_NER(sentence_list, threshold_rate)
IterativeNER ==
    /\ pc = "iterative_NER"
    /\ \E r \in { iterative_NER(nlp, sentence_list, threshold_rate) } :
           /\ output' = r.output
           /\ Finish(r.error, "done")
    /\ UNCHANGED <<nlp, sentence_list, threshold_rate, topVars, name_frequency,
                   name_list, align_rate, matrixVars, edgeVars>>

\* align_rate = calculate_align_rate(sentence_list)
CalculateAlignRate ==
    /\ pc = "calculate_align_rate"
    /\ align_rate' = calculate_align_rate(sentence_list)
    /\ Finish("none", "top_names")
    /\ UNCHANGED <<nerVars, sentence_list, topVars, name_frequency, name_list,
                   matrixVars, edgeVars>>

\* name_frequency, name_list = top_names(preliminary_name_list, novel, top_num)
TopNames ==
    /\ pc = "top_names"
    /\ \E V \in { NameCounts(preliminary_name_list, novel) } :
       \E p \in SortOrders(IF V.error = "none" THEN V.X[1] ELSE <<>>) :
       \E r \in { top_names(preliminary_name_list, novel, top_num, p) } :
             /\ name_frequency' = r.name_frequency
             /\ name_list' = r.names
             /\ Finish(r.error, "calculate_matrix")
    /\ UNCHANGED <<nerVars, sentence_list, topVars, align_rate, matrixVars, edgeVars>>

\* cooccurrence_matrix, sentiment_matrix =
\*     calculate_matrix(name_list, sentence_list, align_rate)
CalculateMatrix ==
    /\ pc = "calculate_matrix"
    /\ \E r \in { calculate_matrix(name_list, sentence_list, align_rate) } :
           /\ occurrence_each_sentence' = r.occurrence
           /\ cooccurrence_matrix' = r.cooccurrence
           /\ sentiment_matrix' = r.sentiment
           /\ Finish(r.error, "done")
    /\ UNCHANGED <<nerVars, sentence_list, topVars, name_frequency, name_list,
                   align_rate, edgeVars>>

\* edge_list = matrix_to_edge_list(matrix, mode, name_list), called directly
MatrixToEdgeList ==
    /\ pc = "project"
    /\ \E r \in { matrix_to_edge_list(matrix, mode, name_list) } :
           /\ edge_list' = r.edge_list
           /\ Finish(r.error, "projected")
    /\ UNCHANGED <<nerVars, sentence_list, topVars, name_frequency, name_list,
                   align_rate, matrixVars, matrix, mode, G, gexf, drawn, png>>

\* plot_graph(name_list, name_frequency, matrix, plt_name, suffix, mode)
PlotGraph ==
    /\ pc = "project"
    /\ \E r \in { plot_graph(name_list, name_frequency, matrix, mode) } :
           /\ edge_list' = r.G.edges
           /\ G' = r.G
           /\ gexf' = r.gexf
           /\ drawn' = r.drawn
           /\ png' = r.png
           /\ Finish(r.error, "plotted")
    /\ UNCHANGED <<nerVars, sentence_list, topVars, name_frequency, name_list,
                   align_rate, matrixVars, matrix, mode>>

\* ----------------------------------------------------------- specifications
\* The pipeline of the script: the alignment rate, the top names and the
\* matrices of one corpus.
Init ==
    /\ pc = "calculate_align_rate"
    /\ sentence_list \in SentenceLists
    /\ novel = JoinSentences(sentence_list)
    /\ preliminary_name_list \in NameLists
    /\ top_num \in TopNums
    /\ name_frequency = <<>>
    /\ name_list = <<>>
    /\ align_rate = Zero
    /\ NoNER /\ NoProjection /\ NoResults

Next == CalculateAlignRate \/ TopNames \/ CalculateMatrix

Spec == Init /\ [][Next]_vars

\* calculate_matrix on a vocabulary, a sentence list and an alignment rate.
InitMatrix ==
    /\ pc = "calculate_matrix"
    /\ sentence_list \in SentenceLists
    /\ name_list \in NameLists
    /\ align_rate \in AlignRates
    /\ name_frequency = <<>>
    /\ NoNER /\ NoCandidates /\ NoProjection /\ NoResults

NextMatrix == CalculateMatrix

SpecMatrix == InitMatrix /\ [][NextMatrix]_vars

\* The edge projection of a matrix, called directly or through plot_graph.
InitEdge ==
    /\ pc = "project"
    /\ matrix \in Matrices
    /\ mode \in ModeInputs
    /\ name_list = SubSeq(RowNames, 1, Len(matrix))
    /\ name_frequency = [k \in 1..Len(matrix) |-> 1]
    /\ sentence_list = <<>>
    /\ align_rate = Zero
    /\ NoNER /\ NoCandidates /\ NoResults

NextEdge == MatrixToEdgeList \/ PlotGraph

SpecEdge == InitEdge /\ [][NextEdge]_vars

\* iterative_NER on a sentence list.
InitNER ==
    /\ pc = "iterative_NER"
    /\ nlp \in Pipelines
    /\ sentence_list \in SentenceLists
    /\ threshold_rate \in ThresholdRates
    /\ name_frequency = <<>>
    /\ name_list = <<>>
    /\ align_rate = Zero
    /\ NoCandidates /\ NoProjection /\ NoResults

NextNER == IterativeNER

SpecNER == InitNER /\ [][NextNER]_vars

\* ------------------------------------------------------------------- claims
Min(a, b) == IF a <= b THEN a ELSE b

IsSubstring(x, s) ==
    \E a \in 1..(Len(s) - Len(x) + 1) : SubSeq(s, a, a + Len(x) - 1) = x

\* x stands in s at position a as a whole word: two or more word characters,
\* with no word character right before or right after.
WholeWordAt(x, s, a) ==
    /\ Len(x) >= 2
    /\ a + Len(x) - 1 <= Len(s)
    /\ SubSeq(s, a, a + Len(x) - 1) = x
    /\ \A k \in 1..Len(x) : x[k] \notin NonWord
    /\ a = 1 \/ s[a - 1] \in NonWord
    /\ a + Len(x) - 1 = Len(s) \/ s[a + Len(x)] \in NonWord

IsWholeWord(x, s) == \E a \in 1..Len(s) : WholeWordAt(x, s, a)

\* The sentences whose presence vector has both name i and name j set.
BothIn(i, j) ==
    { n \in 1..Len(sentence_list) :
        occurrence_each_sentence[n][i] = 1 /\ occurrence_each_sentence[n][j] = 1 }

\* The sum of the sentiment scores of those sentences.
SentimentOf(i, j) ==
    SeqSum([n \in 1..Len(sentence_list) |->
              IF n \in BothIn(i, j) THEN AfinnScore(sentence_list[n]) ELSE 0])

IsSquare(m, K) == Len(m) = K /\ \A i \in 1..K : Len(m[i]) = K

\* C1: the co-occurrence matrix calculate_matrix returns is K x K; its entry
\* [i,j] with i > j is the number of sentences whose presence vector has both
\* name i and name j set, and every entry with i <= j is 0.
C1_CooccurrenceCounts ==
    pc = "done" =>
        LET K == Len(name_list)
        IN  /\ IsSquare(cooccurrence_matrix, K)
            /\ \A i, j \in 1..K :
                 cooccurrence_matrix[i][j] =
                     IF i > j THEN Cardinality(BothIn(i, j)) ELSE 0

C1_Witness ==
    /\ pc = "done"
    /\ Len(name_list) = 3
    /\ \E i, j \in 1..3 : i > j /\ cooccurrence_matrix[i][j] = 2
    /\ \E i, j \in 1..3 : i > j /\ cooccurrence_matrix[i][j] = 0

\* C2: the sentiment matrix calculate_matrix returns has, for i > j, entry
\* [i,j] = (sum of the scores of the sentences containing both names)
\* + align_rate * (number of those sentences); every entry with i <= j is 0.
C2_SentimentPlusAlignment ==
    pc = "done" =>
        LET K == Len(name_list)
        IN  /\ IsSquare(sentiment_matrix, K)
            /\ \A i, j \in 1..K :
                 sentiment_matrix[i][j] =
                     IF i > j
                     THEN RatAdd(FromInt(SentimentOf(i, j)),
                                 RatMul(align_rate, FromInt(Cardinality(BothIn(i, j)))))
                     ELSE Zero

C2_Witness ==
    /\ pc = "done"
    /\ align_rate = Rat(-8, 3)
    /\ \E i, j \in 1..Len(name_list) :
         /\ i > j
         /\ Cardinality(BothIn(i, j)) = 2
         /\ SentimentOf(i, j) = -3
         /\ sentiment_matrix[i][j] = Rat(-25, 3)

\* A sentence with its capital letters replaced by the small ones.
SmallLetters(s) == [k \in 1..Len(s) |-> IF s[k] = "A" THEN "a" ELSE s[k]]

\* C10 as stated: entry i of a sentence's presence vector is 1 exactly when
\* name i is a substring of the sentence (taken case-insensitively).
C10_PresenceIsSubstring ==
    pc = "done" =>
        \A n \in 1..Len(sentence_list), k \in 1..Len(name_list) :
            occurrence_each_sentence[n][k] =
                IF IsSubstring(name_list[k], SmallLetters(sentence_list[n])) THEN 1 ELSE 0

\* C10, amended: every presence vector has length K, and entry i is 1 exactly
\* when name i stands in the lowercased sentence as a whole word (a maximal
\* run of two or more word characters), else 0; a phrase of several words,
\* and a name found only inside a longer word, get 0.
C10_PresenceIsWholeWord ==
    pc = "done" =>
        /\ Len(occurrence_each_sentence) = Len(sentence_list)
        /\ \A n \in 1..Len(sentence_list) :
             /\ Len(occurrence_each_sentence[n]) = Len(name_list)
             /\ \A k \in 1..Len(name_list) :
                  occurrence_each_sentence[n][k] =
                      IF IsWholeWord(name_list[k], SmallLetters(sentence_list[n]))
                      THEN 1 ELSE 0

\* A phrase name and a name inside a longer word: both are substrings of a
\* sentence and have presence 0 there, beside a capitalised name of presence 1.
C10_Witness ==
    /\ pc = "done"
    /\ \E n \in 1..Len(sentence_list), k \in 1..Len(name_list) :
         /\ name_list[k] = W_ada_bill
         /\ IsSubstring(W_ada_bill, SmallLetters(sentence_list[n]))
         /\ occurrence_each_sentence[n][k] = 0
    /\ \E n \in 1..Len(sentence_list), k \in 1..Len(name_list) :
         /\ name_list[k] = W_ada
         /\ IsSubstring(W_ada, sentence_list[n])
         /\ occurrence_each_sentence[n][k] = 0
    /\ \E n \in 1..Len(sentence_list), k \in 1..Len(name_list) :
         /\ name_list[k] = W_ada
         /\ IsSubstring(W_Ada, sentence_list[n])
         /\ occurrence_each_sentence[n][k] = 1

\* The count top_names reports for a name: its occurrences among the words of
\* the lowercased novel that are not stop words.
CorpusFrequency(x) == CountOf(x, Analyze(novel, EnglishStopWords))

\* The order a stable descending sort of the candidates gives.
StableOrder ==
    CHOOSE p \in SortOrders([k \in 1..Len(preliminary_name_list) |->
                                CorpusFrequency(preliminary_name_list[k])]) :
        \A a, b \in 1..Len(preliminary_name_list) :
            (a < b /\ CorpusFrequency(preliminary_name_list[p[a]])
                        = CorpusFrequency(preliminary_name_list[p[b]]))
                => p[a] < p[b]

\* C4 as stated, for top_num >= 0: top_names returns min(top_num, number of
\* candidates) names with their frequencies, by non-increasing frequency,
\* names of equal frequency in the order of the candidate list.
C4_TopNamesStable ==
    (pc = "calculate_matrix" /\ top_num >= 0) =>
        LET size == Min(top_num, Len(preliminary_name_list))
        IN  /\ name_list = [k \in 1..size |-> preliminary_name_list[StableOrder[k]]]
            /\ name_frequency = [k \in 1..size |-> CorpusFrequency(name_list[k])]

\* C4, amended: for a non-empty candidate list and top_num >= 0, top_names
\* returns min(top_num, number of candidates) distinct candidates, each paired
\* position by position with its own frequency, by non-increasing frequency,
\* no candidate left out being more frequent than one returned; names of
\* equal frequency come in no particular order.  An empty candidate list is
\* an error.
C4_TopNames ==
    /\ (pc = "calculate_matrix" /\ top_num >= 0) =>
        LET size == Min(top_num, Len(preliminary_name_list))
            candidates == { preliminary_name_list[k] : k \in 1..Len(preliminary_name_list) }
            chosen == { name_list[k] : k \in 1..Len(name_list) }
        IN  /\ Len(name_list) = size
            /\ Len(name_frequency) = size
            /\ ~HasDuplicates(name_list)
            /\ chosen \subseteq candidates
            /\ \A k \in 1..size : name_frequency[k] = CorpusFrequency(name_list[k])
            /\ \A a, b \in 1..size : a < b => name_frequency[a] >= name_frequency[b]
            /\ \A x \in candidates \ chosen, k \in 1..size :
                 CorpusFrequency(x) <= name_frequency[k]
    /\ preliminary_name_list = <<>> => pc \in { "calculate_align_rate", "top_names", "error" }

\* Three candidates, the two most frequent of equal, nonzero frequency and
\* returned against the order of the candidate list.
C4_Witness ==
    /\ pc = "calculate_matrix"
    /\ top_num = 2
    /\ Len(preliminary_name_list) = 3
    /\ name_frequency = <<1, 1>>
    /\ name_list # [k \in 1..2 |-> preliminary_name_list[StableOrder[k]]]

\* C8: calculate_align_rate ends in an error when no sentence has a nonzero
\* score, and otherwise returns sum(scores) / count(nonzero scores) * -2.
C8_AlignRate ==
    pc = "top_names" =>
        LET scores == [n \in 1..Len(sentence_list) |-> AfinnScore(sentence_list[n])]
            nonzero == Cardinality({ n \in 1..Len(sentence_list) : scores[n] # 0 })
        IN  /\ nonzero > 0
            /\ align_rate = Rat(-2 * SeqSum(scores), nonzero)

\* C9: every entry of the co-occurrence matrix is a non-negative integer and
\* is at most the frequency top_names reports for either of its two names.
C9_CooccurrenceBoundedByFrequency ==
    pc = "done" =>
        \A i, j \in 1..Len(name_list) :
            /\ cooccurrence_matrix[i][j] >= 0
            /\ cooccurrence_matrix[i][j] <= Min(name_frequency[i], name_frequency[j])

HasNonzero(m) == \E i, j \in 1..Len(m) : m[i][j] # 0

ByEntryModes == { "co-occurrence", "sentiment" }

\* The edge of edge_list that joins name i to name j, if there is one.
EdgesBetween(i, j) ==
    { k \in 1..Len(edge_list) :
        edge_list[k].a = name_list[i] /\ edge_list[k].b = name_list[j] }

\* C3 as stated: for a matrix with a nonzero entry and mode 'co-occurrence' or
\* 'sentiment', matrix_to_edge_list returns one edge (name i, name j) for
\* exactly the index pairs i > j whose entry is nonzero, and no edge for a
\* pair whose entry is zero.
C3_EdgesForNonzeroEntries ==
    (pc = "projected" /\ mode \in ByEntryModes /\ HasNonzero(matrix)) =>
        \A i, j \in 1..Len(matrix) :
            Cardinality(EdgesBetween(i, j)) =
                IF i > j /\ matrix[i][j] # 0 THEN 1 ELSE 0

\* C3, amended: for a matrix with a nonzero entry and mode 'co-occurrence' or
\* 'sentiment', matrix_to_edge_list returns without error one edge
\* (name i, name j) for every index pair i > j, whatever its entry, and no
\* other edge; the edge of a pair whose entry is 0 has weight 0.
C3_EdgePerLowerPair ==
    /\ (pc = "projected" /\ mode \in ByEntryModes /\ HasNonzero(matrix)) =>
          /\ 2 * Len(edge_list) = Len(matrix) * (Len(matrix) - 1)
          /\ \A i, j \in 1..Len(matrix) :
                /\ Cardinality(EdgesBetween(i, j)) = IF i > j THEN 1 ELSE 0
                /\ \A k \in EdgesBetween(i, j) :
                      matrix[i][j] = 0 => IsZeroValue(edge_list[k].weight)
    /\ (mode \in ByEntryModes /\ HasNonzero(matrix)) => pc # "error"

\* A sentiment matrix of order 3 with a nonzero and a zero entry below the
\* diagonal, projected: the zero entry has an edge, of weight 0.
C3_Witness ==
    /\ pc = "projected"
    /\ mode = "sentiment"
    /\ Len(matrix) = 3
    /\ HasNonzero(matrix)
    /\ \E i, j \in 1..3 :
         /\ i > j
         /\ matrix[i][j] = 0
         /\ \E k \in EdgesBetween(i, j) : IsZeroValue(edge_list[k].weight)

\* C6: given a matrix whose entries are all zero, in any of the three modes,
\* the projection ends in an error and returns no edge list.
C6_AllZeroIsAnError ==
    (pc # "project" /\ mode \in Modes /\ ~HasNonzero(matrix)) => pc = "error"

\* C7: with a mode outside the three, for every matrix (of order 0 and 1 too),
\* the operation ends in an error with no partial output: no edge list, no
\* graph built, drawn or written.
C7_UnknownModeFailsFast ==
    (pc # "project" /\ mode \notin Modes) =>
        /\ pc = "error"
        /\ edge_list = <<>>
        /\ ~G.built
        /\ gexf = "none"
        /\ ~drawn
        /\ ~png

\* C5: for a non-empty sentence list, iterative_NER returns a duplicate-free
\* collection of exactly the candidate names (strings) that occur at least
\* threshold_rate * (number of sentences) times in the per-sentence candidate
\* lists; no other value is in the output.
C5_FrequentNamesOnly ==
    (pc # "iterative_NER" /\ sentence_list # <<>>) =>
        LET lists == [n \in 1..Len(sentence_list) |->
                         name_entity_recognition(nlp, sentence_list[n]).value]
            candidates == flatten(lists)
            frequent(x) ==
                CountOf(x, candidates) * threshold_rate.den
                    >= threshold_rate.num * Len(sentence_list)
        IN  /\ pc = "done"
            /\ ~HasDuplicates(output)
            /\ \A k \in 1..Len(output) :
                 output[k].tag = "str" /\ frequent(output[k])
            /\ \A k \in 1..Len(candidates) :
                 (candidates[k].tag = "str" /\ frequent(candidates[k]))
                     => \E o \in 1..Len(output) : output[o] = candidates[k]

====
